---- MODULE Spec2Model ----
(***************************************************************************)
(* Per-channel session supervisor of the Twitch chat analyzer backend:     *)
(* websocket_endpoint handlers (main.py), the bot registry and TwitchBot   *)
(* callbacks (twitch_irc.py) and the ConnectionManager broadcast passes    *)
(* (websocket_manager.py), as cooperative tasks of one asyncio loop.       *)
(* A step of the model runs one task from one suspension point (an await   *)
(* that waits for I/O) to the next.                                        *)
(***************************************************************************)
EXTENDS Integers, Sequences, FiniteSets, TLC

\* ---------------------------------------------------------------- bounds
NumClients == 2
MaxMsgs == 2

WS == 1..NumClients
Channels == {"foo"}
MsgIds == 1..MaxMsgs

\* Values of a handler's bot_instance (main.py:103).
NotReturned == 0
Raised == -1

VARIABLES
    token,               \* bool(TWITCH_ACCESS_TOKEN), fixed for the process
    active_connections,  \* ConnectionManager.active_connections: channel -> list of websockets
    active_bots,         \* twitch_irc.active_bots: channel -> TwitchBot (index into bots)
    bots,                \* every TwitchBot ever constructed, in creation order
    pc,                  \* position of each websocket_endpoint handler
    streamer_name,       \* the channel of each handler
    bot_instance,        \* what start_twitch_bot returned to each handler
    passes,              \* broadcast_to_streamer calls in flight, by owning task
    sendq,               \* per websocket: owners awaiting send_json on it, in call order
    wstate,              \* per websocket transport: "open", "stalled" or "closed"
    sent,                \* per websocket: the events its client was sent, in order
    nmsgs,               \* raw chat events delivered by connectors so far
    shutdown,            \* shutdown_event: position, names still to stop, stops awaited,
                         \* and (history) the bots registered when it started
    seen_bot,            \* history: the bot start_twitch_bot found registered on entry
    seventv_global_cache,   \* emote_handler.seventv_global_cache: None or the global mapping
    global_requests,        \* history: requests issued to the global emote source
    emote_cache,            \* emote_handler.emote_cache: channel -> (ffz, 7tv channel) mappings
    emote_sentiment_scores, \* nlp_processor.emote_sentiment_scores: name -> score
    reload_response,        \* the last response of POST /reload-emoji-sentiments
    detection,              \* a call of detect_emotes_in_message: its arguments and result
    enrichment              \* a run of event_message's pipeline: its inputs and payload

\* The module-level emote and sentiment state.
emote_state == <<seventv_global_cache, global_requests, emote_cache,
                 emote_sentiment_scores, reload_response, detection, enrichment>>

vars == <<token, active_connections, active_bots, bots, pc, streamer_name,
          bot_instance, passes, sendq, wstate, sent, nmsgs, shutdown, seen_bot,
          seventv_global_cache, global_requests, emote_cache,
          emote_sentiment_scores, reload_response, detection, enrichment>>

\* ------------------------------------------------------------- helpers
Range(s) == {s[i] : i \in 1..Len(s)}

Put(f, k, v) == [x \in (DOMAIN f) \cup {k} |-> IF x = k THEN v ELSE f[x]]

Drop(f, k) == [x \in (DOMAIN f) \ {k} |-> f[x]]

\* list.remove(x): removes the first occurrence.
RECURSIVE ListRemove(_, _)
ListRemove(s, x) ==
    IF s = <<>> THEN <<>>
    ELSE IF Head(s) = x THEN Tail(s)
    ELSE <<Head(s)>> \o ListRemove(Tail(s), x)

Event(type, payload, bot, id) == [type |-> type, payload |-> payload, bot |-> bot, id |-> id]

BotIds == 1..Len(bots)

\* Owners of a broadcast pass: the task that called broadcast_to_streamer.
HandlerOwner(h) == <<"handler", h>>
ReadyOwner(b) == <<"event_ready", b>>
ErrorOwner(b) == <<"event_error", b>>
MessageOwner(m) == <<"event_message", m>>
FetchOwner(b) == <<"fetch_emotes", b>>
RaisedOwner(m) == <<"event_error_of_message", m>>

\* ------------------------------------------- ConnectionManager (registry)
\* ConnectionManager.connect after websocket.accept() returned.
connect(conns, websocket, c) ==
    IF c \in DOMAIN conns
    THEN [conns EXCEPT ![c] = Append(@, websocket)]
    ELSE Put(conns, c, <<websocket>>)

\* ConnectionManager.disconnect: it contains no suspension point.
\* Mutant of disconnect: the key of an emptied list is not deleted.
disconnectKeepsKey(conns, websocket, c) ==
    IF c \notin DOMAIN conns THEN conns
    ELSE IF websocket \notin Range(conns[c]) THEN conns
    ELSE [conns EXCEPT ![c] = ListRemove(conns[c], websocket)]

\* Mutant of disconnect: emptying one channel's list resets the registry.
disconnectResets(conns, websocket, c) ==
    IF c \notin DOMAIN conns THEN conns
    ELSE IF websocket \notin Range(conns[c]) THEN conns
    ELSE LET rest == ListRemove(conns[c], websocket)
         IN  IF rest = <<>> THEN <<>> ELSE [conns EXCEPT ![c] = rest]

disconnect(conns, websocket, c) ==
    IF c \notin DOMAIN conns THEN conns
    ELSE IF websocket \notin Range(conns[c]) THEN conns   \* ValueError, caught
    ELSE LET rest == ListRemove(conns[c], websocket)
         IN  IF rest = <<>> THEN Drop(conns, c) ELSE [conns EXCEPT ![c] = rest]

\* The loop "for client in disconnected_clients: await self.disconnect(...)".
RECURSIVE DisconnectAll(_, _, _)
DisconnectAll(conns, clients, c) ==
    IF clients = <<>> THEN conns
    ELSE DisconnectAll(disconnect(conns, Head(clients), c), Tail(clients), c)

\* get_status: the channels of active_bots and their number.
get_status ==
    [active_analysis_count |-> Cardinality(DOMAIN active_bots),
     analyzing_streamers |-> DOMAIN active_bots]

\* ------------------------------------------- broadcast_to_streamer passes
\* Entry of broadcast_to_streamer(c, message) called by task o: when the channel
\* has subscribers the list is copied and the first send_json is awaited;
\* otherwise the call returns at once (began = FALSE).
StartBroadcast(ps, sq, conns, o, c, message) ==
    IF c \in DOMAIN conns
    THEN [began  |-> TRUE,
          passes |-> Put(ps, o, [streamer_name |-> c, message |-> message,
                                 snapshot |-> conns[c], i |-> 1,
                                 disconnected_clients |-> <<>>]),
          sendq  |-> [sq EXCEPT ![conns[c][1]] = Append(@, o)]]
    ELSE [began |-> FALSE, passes |-> Drop(ps, o), sendq |-> sq]

Current(o) == passes[o].snapshot[passes[o].i]

\* The awaited send_json of pass o can return: sends on one connection return in
\* the order they were issued, and a send to a client that does not read never
\* returns.
CanReturn(o) ==
    /\ o \in DOMAIN passes
    /\ sendq[Current(o)] # <<>>
    /\ Head(sendq[Current(o)]) = o
    /\ wstate[Current(o)] # "stalled"

IsLast(o) == passes[o].i = Len(passes[o].snapshot)

\* send_json returned normally (TRUE) or raised (FALSE, the except branch).
SendOk(o) == wstate[Current(o)] = "open"

SentAfter(o) ==
    IF SendOk(o) THEN [sent EXCEPT ![Current(o)] = Append(@, passes[o].message)]
    ELSE sent

\* Mutant of MarkedAfter: the failed client is not collected.
MarkedAfterForgets(o) == passes[o].disconnected_clients

\* disconnected_clients after the except branch of the current send.
MarkedAfter(o) ==
    IF SendOk(o) THEN passes[o].disconnected_clients
    ELSE Append(passes[o].disconnected_clients, Current(o))

\* The registry after the pass's removal loop, which runs once the last send
\* of the pass has returned.
RegistryAfter(o) ==
    DisconnectAll(active_connections, MarkedAfter(o), passes[o].streamer_name)

QueueAfter(o) == [sendq EXCEPT ![Current(o)] = Tail(@)]

\* One iteration of the for loop other than the last: the send returns or
\* raises and the next send is awaited.
SendNext(o) ==
    /\ CanReturn(o)
    /\ ~IsLast(o)
    /\ sent' = SentAfter(o)
    /\ passes' = [passes EXCEPT ![o].i = @ + 1,
                                ![o].disconnected_clients = MarkedAfter(o)]
    /\ sendq' = [QueueAfter(o) EXCEPT ![passes[o].snapshot[passes[o].i + 1]] = Append(@, o)]
    /\ UNCHANGED <<token, active_connections, active_bots, bots, pc, streamer_name,
                   bot_instance, wstate, nmsgs, shutdown, seen_bot, emote_state>>

\* ------------------------------------------------------------ emote_handler
\* Text is a sequence of characters; an emote name is a word.
Letters == {"x", "y"}
X == <<"x">>
Y == <<"y">>
XY == <<"x", "y">>

\* An EmoteSet maps names to URLs; the URL a source serves for a name is
\* written <<source, name>>.
NoEmotes == <<>>

EmoteSetOf(source, names) == [n \in names |-> <<source, n>>]

\* What the emote sources hold: two entries each, with names in common.
FfzRoom == EmoteSetOf("ffz", {X, Y})
SevenTvUser == EmoteSetOf("7tv", {X, XY})
SevenTvGlobal == EmoteSetOf("7tv_global", {Y, XY})

\* How a source answers a request: with its data, with 404, or not at all.
Responses == {"ok", "not_found", "error"}

\* Mutant of get_ffz_emotes: the room's emotes whatever the answer.
get_ffz_emotesAlways(response) == FfzRoom

\* get_ffz_emotes: a 404 and a failed request both give the empty mapping.
get_ffz_emotes(response) == IF response = "ok" THEN FfzRoom ELSE NoEmotes

\* get_7tv_emotes, and the empty result gather is given in its place when
\* the user id is None.
get_7tv_emotes(channel_id, response) ==
    IF channel_id = "id" /\ response = "ok" THEN SevenTvUser ELSE NoEmotes

\* get_7tv_global_emotes: there is no 404 case, any failure gives the empty mapping.
get_7tv_global_emotes(response) == IF response = "ok" THEN SevenTvGlobal ELSE NoEmotes

\* Values of seventv_global_cache.
None == [is_none |-> TRUE, value |-> NoEmotes]
Cached(emotes) == [is_none |-> FALSE, value |-> emotes]

\* str.split(): the maximal runs of characters other than whitespace.
RECURSIVE split(_)
split(s) ==
    IF s = <<>> THEN <<>>
    ELSE IF Head(s) = " " THEN split(Tail(s))
    ELSE IF Len(s) > 1 /\ s[2] # " "
         THEN <<(<<Head(s)>> \o Head(split(Tail(s))))>> \o Tail(split(Tail(s)))
         ELSE <<(<<Head(s)>>)>> \o split(Tail(s))

\* {**a, **b}: the entries of b override those of a.
Merge(a, b) == [n \in (DOMAIN a) \cup (DOMAIN b) |-> IF n \in DOMAIN b THEN b[n] ELSE a[n]]

\* Mutant of combined_emotes: the global mapping is merged last.
combined_emotesGlobalLast(ffz_emotes, seventv_emotes, global_seventv_emotes) ==
    Merge(Merge(ffz_emotes, seventv_emotes), global_seventv_emotes)

\* combined_emotes = {**global_seventv_emotes, **ffz_emotes, **seventv_emotes}
combined_emotes(ffz_emotes, seventv_emotes, global_seventv_emotes) ==
    Merge(Merge(global_seventv_emotes, ffz_emotes), seventv_emotes)

\* The loop over the words: a word of the combined mapping is appended when it
\* has an entry in emote_sentiment_scores.
RECURSIVE DetectWords(_, _, _)
DetectWords(words, combined, scores) ==
    IF words = <<>> THEN <<>>
    ELSE IF Head(words) \in DOMAIN combined /\ Head(words) \in DOMAIN scores
         THEN <<[name |-> Head(words), url |-> combined[Head(words)],
                 sentiment_score |-> scores[Head(words)]]>>
              \o DetectWords(Tail(words), combined, scores)
         ELSE DetectWords(Tail(words), combined, scores)

detect_emotes_in_message(message_content, ffz_emotes, seventv_emotes, global_seventv_emotes, scores) ==
    DetectWords(split(message_content),
                combined_emotes(ffz_emotes, seventv_emotes, global_seventv_emotes), scores)

\* ------------------------------------------------- twitch_irc: the registry
\* Mutant of TwitchBot: the mappings cached for the channel are taken over.
TwitchBotFromCache(c) ==
    [streamer_channel |-> c, state |-> "starting", stopper |-> 0,
     ffz_emotes |-> IF c \in DOMAIN emote_cache THEN emote_cache[c][1] ELSE NoEmotes,
     seventv_channel_emotes |-> IF c \in DOMAIN emote_cache THEN emote_cache[c][2] ELSE NoEmotes,
     seventv_global_emotes |-> NoEmotes,
     emote_fetch_task |-> "none", twitch_user_id |-> "unset",
     ffz_response |-> "unset", seventv_response |-> "unset"]

\* TwitchBot.__init__: empty mappings and no fetch task. emote_fetch_task is
\* the position of the task _emote_fetch_task refers to; twitch_user_id and
\* the two responses are locals of that task.
TwitchBot(c) ==
    [streamer_channel |-> c, state |-> "starting", stopper |-> 0,
     ffz_emotes |-> NoEmotes, seventv_channel_emotes |-> NoEmotes,
     seventv_global_emotes |-> NoEmotes,
     emote_fetch_task |-> "none", twitch_user_id |-> "unset",
     ffz_response |-> "unset", seventv_response |-> "unset"]

\* The task exists and is not done().
FetchRunning(task) == task \in {"created", "global", "user_id", "gather", "broadcast"}

\* Mutant of stop_bot: the fetch task is left running.
stop_botKeepsFetch(bs, b, who) ==
    [bs EXCEPT ![b].state = "closing", ![b].stopper = who]

\* stop_bot up to "await self.close()": a fetch task that is not done is
\* cancelled; who records the caller of stop_twitch_bot.
stop_bot(bs, b, who) ==
    [bs EXCEPT ![b].state = "closing", ![b].stopper = who,
               ![b].emote_fetch_task = IF FetchRunning(@) THEN "cancelled" ELSE @]

\* The cancelled task is thrown CancelledError at the await it waits in: a
\* broadcast it was in is abandoned.
PassesAfterStop(bs, b) ==
    IF bs[b].emote_fetch_task = "cancelled" THEN Drop(passes, FetchOwner(b)) ELSE passes

QueuesAfterStop(bs, b) ==
    IF bs[b].emote_fetch_task = "cancelled"
    THEN [w \in WS |-> SelectSeq(sendq[w], LAMBDA o : o # FetchOwner(b))]
    ELSE sendq

\* start_twitch_bot, from constructing the TwitchBot to "return bot": the bot
\* is registered and bot.start() is handed to a new task, which is not awaited.
\* Mutant of CreateAndRegister: the new bot is not entered in active_bots.
CreateUnregistered(h, c) ==
    /\ bots' = Append(bots, TwitchBot(c))
    /\ active_bots' = active_bots
    /\ bot_instance' = [bot_instance EXCEPT ![h] = Len(bots) + 1]
    /\ pc' = [pc EXCEPT ![h] = "sleeping"]

CreateAndRegister(h, c) ==
    /\ bots' = Append(bots, TwitchBot(c))
    /\ active_bots' = Put(active_bots, c, Len(bots) + 1)
    /\ bot_instance' = [bot_instance EXCEPT ![h] = Len(bots) + 1]
    /\ pc' = [pc EXCEPT ![h] = "sleeping"]

\* Mutant of PopBot: the bot is looked up and its entry left in place.
PopBotKeeps(ab, c) == ab

\* stop_twitch_bot's active_bots.pop(streamer_name, None).
PopBot(ab, c) == Drop(ab, c)

\* ------------------------------------------------ main: websocket_endpoint
\* manager.connect returns and start_twitch_bot runs to its first suspension.
\* Connections are accepted until the application shuts down.
Connect(h, c) ==
    /\ pc[h] = "idle"
    /\ shutdown.pc = "idle"
    /\ streamer_name' = [streamer_name EXCEPT ![h] = c]
    /\ active_connections' = connect(active_connections, h, c)
    /\ seen_bot' = [seen_bot EXCEPT ![h] = IF c \in DOMAIN active_bots THEN active_bots[c] ELSE 0]
    /\ UNCHANGED <<token, wstate, sent, nmsgs, shutdown, emote_state>>
    /\ IF c \in DOMAIN active_bots
       THEN LET r == StartBroadcast(passes, sendq, active_connections', HandlerOwner(h), c,
                                    Event("status", "already_running", 0, 0))
            IN  /\ passes' = r.passes
                /\ sendq' = r.sendq
                /\ pc' = [pc EXCEPT ![h] = "already"]
                /\ UNCHANGED <<active_bots, bots, bot_instance>>
       ELSE IF ~token
       THEN LET r == StartBroadcast(passes, sendq, active_connections', HandlerOwner(h), c,
                                    Event("warning", "anonymous", 0, 0))
            IN  /\ passes' = r.passes
                /\ sendq' = r.sendq
                /\ pc' = [pc EXCEPT ![h] = "anon"]
                /\ UNCHANGED <<active_bots, bots, bot_instance>>
       ELSE /\ CreateAndRegister(h, c)
            /\ UNCHANGED <<passes, sendq>>

\* The anonymous-login warning broadcast returns; start_twitch_bot goes on to
\* construct and register the bot.
AnonymousWarningReturns(h) ==
    /\ pc[h] = "anon"
    /\ CanReturn(HandlerOwner(h))
    /\ IsLast(HandlerOwner(h))
    /\ sent' = SentAfter(HandlerOwner(h))
    /\ active_connections' = RegistryAfter(HandlerOwner(h))
    /\ passes' = Drop(passes, HandlerOwner(h))
    /\ sendq' = QueueAfter(HandlerOwner(h))
    /\ CreateAndRegister(h, streamer_name[h])
    /\ UNCHANGED <<token, streamer_name, wstate, nmsgs, shutdown, seen_bot, emote_state>>

\* The "already running" broadcast returns and active_bots[streamer_name] is
\* read again for the return value; a missing key raises KeyError, which
\* websocket_endpoint catches and reports with another broadcast.
AlreadyRunningReturns(h) ==
    LET o == HandlerOwner(h)
        c == streamer_name[h]
        conns == RegistryAfter(o)
        r == StartBroadcast(Drop(passes, o), QueueAfter(o), conns, o, c,
                            Event("error", "server_error", 0, 0))
    IN  /\ pc[h] = "already"
        /\ CanReturn(o)
        /\ IsLast(o)
        /\ sent' = SentAfter(o)
        /\ active_connections' = conns
        /\ IF c \in DOMAIN active_bots
           THEN /\ bot_instance' = [bot_instance EXCEPT ![h] = active_bots[c]]
                /\ pc' = [pc EXCEPT ![h] = "sleeping"]
                /\ passes' = Drop(passes, o)
                /\ sendq' = QueueAfter(o)
           ELSE /\ bot_instance' = [bot_instance EXCEPT ![h] = Raised]
                /\ pc' = [pc EXCEPT ![h] = IF r.began THEN "start_err" ELSE "sleeping"]
                /\ passes' = r.passes
                /\ sendq' = r.sendq
        /\ UNCHANGED <<token, active_bots, bots, streamer_name, wstate, nmsgs, shutdown, seen_bot, emote_state>>

\* The handler's sleep loop is left (disconnect or any other exception) and the
\* finally block runs: manager.disconnect, and for the last client
\* stop_twitch_bot up to stop_bot's "await self.close()".
HandlerCleanup(h) ==
    LET c == streamer_name[h]
        conns == disconnect(active_connections, h, c)
    IN  /\ pc[h] = "sleeping"
        /\ active_connections' = conns
        /\ wstate' = [wstate EXCEPT ![h] = "closed"]
        /\ IF c \notin DOMAIN conns /\ c \in DOMAIN active_bots
           THEN /\ active_bots' = PopBot(active_bots, c)
                /\ bots' = stop_bot(bots, active_bots[c], h)
                /\ passes' = PassesAfterStop(bots', active_bots[c])
                /\ sendq' = QueuesAfterStop(bots', active_bots[c])
                /\ pc' = [pc EXCEPT ![h] = "stopping"]
           ELSE /\ pc' = [pc EXCEPT ![h] = "done"]
                /\ UNCHANGED <<active_bots, bots, passes, sendq>>
        /\ UNCHANGED <<token, streamer_name, bot_instance, sent, nmsgs, shutdown, seen_bot, emote_state>>

\* Mutant of CloseReturns: the closed connector reconnects.
CloseReturnsRestarts(b) ==
    /\ b \in BotIds
    /\ bots[b].state = "closing"
    /\ bots' = [bots EXCEPT ![b].state = "starting"]
    /\ pc' = [h \in WS |-> IF pc[h] = "stopping" /\ bots[b].stopper = h THEN "done" ELSE pc[h]]
    /\ shutdown' = [shutdown EXCEPT !.awaited = @ \ {b}]
    /\ UNCHANGED <<token, active_connections, active_bots, streamer_name, bot_instance,
                   passes, sendq, wstate, sent, nmsgs, seen_bot, emote_state>>

\* stop_bot's "await self.close()" returns; stop_twitch_bot returns True to
\* the handler that requested the stop.
CloseReturns(b) ==
    /\ b \in BotIds
    /\ bots[b].state = "closing"
    /\ bots' = [bots EXCEPT ![b].state = "closed"]
    /\ pc' = [h \in WS |-> IF pc[h] = "stopping" /\ bots[b].stopper = h THEN "done" ELSE pc[h]]
    /\ shutdown' = [shutdown EXCEPT !.awaited = @ \ {b}]
    /\ UNCHANGED <<token, active_connections, active_bots, streamer_name, bot_instance,
                   passes, sendq, wstate, sent, nmsgs, seen_bot, emote_state>>

\* stop_bot raises while closing the connector: stop_twitch_bot catches the
\* exception, logs it and returns False.
CloseRaises(b) ==
    /\ b \in BotIds
    /\ bots[b].state = "closing"
    /\ bots' = [bots EXCEPT ![b].state = "stop_error"]
    /\ pc' = [h \in WS |-> IF pc[h] = "stopping" /\ bots[b].stopper = h THEN "done" ELSE pc[h]]
    /\ shutdown' = [shutdown EXCEPT !.awaited = @ \ {b}]
    /\ UNCHANGED <<token, active_connections, active_bots, streamer_name, bot_instance,
                   passes, sendq, wstate, sent, nmsgs, seen_bot, emote_state>>

\* ------------------------------------------------------ main: shutdown_event
\* A second channel, for runs in which shutdown_event has several bots to stop.
OtherChannel == "bar"

\* Marks a stop requested by shutdown_event in a bot's stopper field.
ByShutdown == -1

\* shutdown_event lists the registered channels and hands one stop_twitch_bot
\* per channel to asyncio.gather, which runs them as tasks.
ShutdownEvent ==
    /\ shutdown.pc = "idle"
    /\ shutdown' = [pc |-> "gather", names |-> DOMAIN active_bots, awaited |-> {},
                    registered |-> {active_bots[c] : c \in DOMAIN active_bots}]
    /\ UNCHANGED <<token, active_connections, active_bots, bots, pc, streamer_name,
                   bot_instance, passes, sendq, wstate, sent, nmsgs, seen_bot, emote_state>>

\* One of the gathered stop_twitch_bot(name) tasks runs up to stop_bot's
\* "await self.close()", or returns False when the name is no longer registered.
ShutdownStop(c) ==
    /\ shutdown.pc = "gather"
    /\ c \in shutdown.names
    /\ IF c \in DOMAIN active_bots
       THEN /\ active_bots' = PopBot(active_bots, c)
            /\ bots' = stop_bot(bots, active_bots[c], ByShutdown)
            /\ passes' = PassesAfterStop(bots', active_bots[c])
            /\ sendq' = QueuesAfterStop(bots', active_bots[c])
            /\ shutdown' = [shutdown EXCEPT !.names = @ \ {c},
                                            !.awaited = @ \cup {active_bots[c]}]
       ELSE /\ shutdown' = [shutdown EXCEPT !.names = @ \ {c}]
            /\ UNCHANGED <<active_bots, bots, passes, sendq>>
    /\ UNCHANGED <<token, active_connections, pc, streamer_name, bot_instance,
                   wstate, sent, nmsgs, seen_bot, emote_state>>

\* Mutant of GatherDone: the gathered stops are not awaited.
GatherDoneNoWait == shutdown.names = {}

\* asyncio.gather returns: each gathered stop_twitch_bot call has returned.
GatherDone == shutdown.names = {} /\ shutdown.awaited = {}

\* Every gathered stop has returned: shutdown_event returns.
ShutdownReturns ==
    /\ shutdown.pc = "gather"
    /\ GatherDone
    /\ shutdown' = [shutdown EXCEPT !.pc = "done"]
    /\ UNCHANGED <<token, active_connections, active_bots, bots, pc, streamer_name,
                   bot_instance, passes, sendq, wstate, sent, nmsgs, seen_bot, emote_state>>

\* ------------------------------------------------ TwitchBot event callbacks
\* The connector joined the channel and dispatches event_ready, which hands
\* _fetch_emotes to a new task and broadcasts the "Successfully joined" status.
EventReady(b) ==
    LET c == bots[b].streamer_channel
        r == StartBroadcast(passes, sendq, active_connections, ReadyOwner(b), c,
                            Event("status", "joined", b, 0))
    IN  /\ b \in BotIds
        /\ bots[b].state = "starting"
        /\ bots' = [bots EXCEPT ![b].state = "ready",
                                ![b].emote_fetch_task = IF FetchRunning(@) THEN @ ELSE "created"]
        /\ passes' = r.passes
        /\ sendq' = r.sendq
        /\ UNCHANGED <<token, active_connections, active_bots, pc, streamer_name,
                       bot_instance, wstate, sent, nmsgs, shutdown, seen_bot, emote_state>>

\* The task running bot.start() ends with an error (authentication rejected).
\* Nothing awaits that task. The connector may report the error to event_error
\* (reported), which broadcasts the authentication notice and then the IRC error.
StartFails(b, reported) ==
    LET c == bots[b].streamer_channel
        r == StartBroadcast(passes, sendq, active_connections, ErrorOwner(b), c,
                            Event("error", "auth_failed", b, 0))
    IN  /\ b \in BotIds
        /\ bots[b].state = "starting"
        /\ bots' = [bots EXCEPT ![b].state = "failed"]
        /\ passes' = IF reported THEN r.passes ELSE passes
        /\ sendq' = IF reported THEN r.sendq ELSE sendq
        /\ UNCHANGED <<token, active_connections, active_bots, pc, streamer_name,
                       bot_instance, wstate, sent, nmsgs, shutdown, seen_bot, emote_state>>

\* The connector delivers a raw chat event whose event_message raises before
\* its broadcast (the pipeline has no handler around its reads of the event).
\* The exception leaves the callback; the connector library hands an exception
\* of an event callback to event_error, which broadcasts it as an error event
\* (it is no AuthenticationError) to the subscribers of that moment.
EventMessageRaises(b) ==
    LET c == bots[b].streamer_channel
        m == nmsgs + 1
        r == StartBroadcast(passes, sendq, active_connections, RaisedOwner(m), c,
                            Event("error", "irc_error", b, m))
    IN  /\ b \in BotIds
        /\ bots[b].state = "ready"
        /\ nmsgs < MaxMsgs
        /\ nmsgs' = m
        /\ passes' = r.passes
        /\ sendq' = r.sendq
        /\ UNCHANGED <<token, active_connections, active_bots, bots, pc, streamer_name,
                       bot_instance, wstate, sent, shutdown, seen_bot, emote_state>>

\* event_error's first broadcast returns and its second one starts.
EventErrorSecond(b) ==
    LET o == ErrorOwner(b)
        conns == RegistryAfter(o)
        r == StartBroadcast(Drop(passes, o), QueueAfter(o), conns, o,
                            bots[b].streamer_channel, Event("error", "irc_error", b, 0))
    IN  /\ CanReturn(o)
        /\ IsLast(o)
        /\ passes[o].message.payload = "auth_failed"
        /\ sent' = SentAfter(o)
        /\ active_connections' = conns
        /\ passes' = r.passes
        /\ sendq' = r.sendq
        /\ UNCHANGED <<token, active_bots, bots, pc, streamer_name, bot_instance,
                       wstate, nmsgs, shutdown, seen_bot, emote_state>>

\* The connector delivers a raw chat event and dispatches event_message in a
\* task of its own; the enriched chat_message is broadcast.
EventMessage(b) ==
    LET c == bots[b].streamer_channel
        m == nmsgs + 1
        r == StartBroadcast(passes, sendq, active_connections, MessageOwner(m), c,
                            Event("chat_message", "chat", b, m))
    IN  /\ b \in BotIds
        /\ bots[b].state = "ready"
        /\ nmsgs < MaxMsgs
        /\ nmsgs' = m
        /\ passes' = r.passes
        /\ sendq' = r.sendq
        /\ UNCHANGED <<token, active_connections, active_bots, bots, pc, streamer_name,
                       bot_instance, wstate, sent, shutdown, seen_bot, emote_state>>

\* The last send of a broadcast returns whose caller has nothing left to do
\* but return: the callbacks of the bot, its emote fetch task, and
\* websocket_endpoint's except branch, after which the handler enters its
\* sleep loop. Failed clients are
\* removed first.
BroadcastReturns(o) ==
    /\ CanReturn(o)
    /\ IsLast(o)
    /\ \/ o[1] \in {"event_ready", "event_message", "fetch_emotes", "event_error_of_message"}
       \/ o[1] = "event_error" /\ passes[o].message.payload = "irc_error"
       \/ o[1] = "handler" /\ pc[o[2]] = "start_err"
    /\ sent' = SentAfter(o)
    /\ active_connections' = RegistryAfter(o)
    /\ passes' = Drop(passes, o)
    /\ sendq' = QueueAfter(o)
    /\ pc' = IF o[1] = "handler" THEN [pc EXCEPT ![o[2]] = "sleeping"] ELSE pc
    /\ bots' = IF o[1] = "fetch_emotes"
               THEN [bots EXCEPT ![o[2]].emote_fetch_task = "done"] ELSE bots
    /\ UNCHANGED <<token, active_bots, streamer_name, bot_instance,
                   wstate, nmsgs, shutdown, seen_bot, emote_state>>

\* ------------------------------------------- TwitchBot: the emote fetch task
\* get_twitch_user_id follows the global step: without credentials it returns
\* None at once and the gather is awaited, with them the Helix request is
\* awaited. (A missing TWITCH_CLIENT_ID acts as a missing token does.)
AfterGlobal(bot) ==
    IF token THEN [bot EXCEPT !.emote_fetch_task = "user_id"]
    ELSE [bot EXCEPT !.emote_fetch_task = "gather", !.twitch_user_id = "none"]

\* The fetch task starts to run: fetch_all_emotes_for_channel tests the global
\* cache and, when it is None, awaits the request to the global source.
FetchStart(b) ==
    /\ bots[b].emote_fetch_task = "created"
    /\ IF seventv_global_cache.is_none
       THEN /\ bots' = [bots EXCEPT ![b].emote_fetch_task = "global"]
            /\ global_requests' = global_requests + 1
       ELSE /\ bots' = [bots EXCEPT ![b] = AfterGlobal(@)]
            /\ UNCHANGED global_requests
    /\ UNCHANGED <<token, active_connections, active_bots, pc, streamer_name,
                   bot_instance, passes, sendq, wstate, sent, nmsgs, shutdown,
                   seen_bot, seventv_global_cache, emote_cache, emote_sentiment_scores,
                   reload_response, detection, enrichment>>

\* get_7tv_global_emotes returns and its result is stored in the cache.
GlobalReturns(b, response) ==
    /\ bots[b].emote_fetch_task = "global"
    /\ seventv_global_cache' = Cached(get_7tv_global_emotes(response))
    /\ bots' = [bots EXCEPT ![b] = AfterGlobal(@)]
    /\ UNCHANGED <<token, active_connections, active_bots, pc, streamer_name,
                   bot_instance, passes, sendq, wstate, sent, nmsgs, shutdown,
                   seen_bot, global_requests, emote_cache, emote_sentiment_scores,
                   reload_response, detection, enrichment>>

\* get_twitch_user_id returns the id (found) or None; the two channel sources
\* are then requested through asyncio.gather.
UserIdReturns(b, found) ==
    /\ bots[b].emote_fetch_task = "user_id"
    /\ bots' = [bots EXCEPT ![b].emote_fetch_task = "gather",
                            ![b].twitch_user_id = IF found THEN "id" ELSE "none"]
    /\ UNCHANGED <<token, active_connections, active_bots, pc, streamer_name,
                   bot_instance, passes, sendq, wstate, sent, nmsgs, shutdown,
                   seen_bot, seventv_global_cache, global_requests, emote_cache,
                   emote_sentiment_scores, reload_response, detection, enrichment>>

\* The gather returns: fetch_all_emotes_for_channel writes emote_cache and
\* returns, _fetch_emotes stores the three mappings in the bot and broadcasts
\* the "emote data loaded" status. Nothing in the try block raises an
\* Exception, so the except branch with its error event is not taken.
GatherReturns(b, ffz_response, seventv_response) ==
    LET c == bots[b].streamer_channel
        ffz == get_ffz_emotes(ffz_response)
        tv_chan == get_7tv_emotes(bots[b].twitch_user_id, seventv_response)
        r == StartBroadcast(passes, sendq, active_connections, FetchOwner(b), c,
                            Event("status", "emotes_loaded", b, 0))
    IN  /\ bots[b].emote_fetch_task = "gather"
        /\ (seventv_response = "not_requested") = (bots[b].twitch_user_id = "none")
        /\ emote_cache' = Put(emote_cache, c, <<ffz, tv_chan>>)
        /\ bots' = [bots EXCEPT ![b].ffz_emotes = ffz,
                                ![b].seventv_channel_emotes = tv_chan,
                                ![b].seventv_global_emotes = seventv_global_cache.value,
                                ![b].ffz_response = ffz_response,
                                ![b].seventv_response = seventv_response,
                                ![b].emote_fetch_task = IF r.began THEN "broadcast" ELSE "done"]
        /\ passes' = r.passes
        /\ sendq' = r.sendq
        /\ UNCHANGED <<token, active_connections, active_bots, pc, streamer_name,
                       bot_instance, wstate, sent, nmsgs, shutdown, seen_bot,
                       seventv_global_cache, global_requests, emote_sentiment_scores,
                       reload_response, detection, enrichment>>

\* ------------------------------------------------------ main: administration
\* What emoji_sentiment_scores.csv may hold when it is read.
CsvFiles == {NoEmotes, [n \in {X} |-> 1], [n \in {X, Y} |-> IF n = X THEN 1 ELSE -1]}

\* POST /reload-emoji-sentiments: reload_emote_sentiment_scores clears the
\* scores, loads the file again and returns the number of entries.
ReloadEmojiSentiments(file) ==
    /\ emote_sentiment_scores' = file
    /\ reload_response' = [success |-> TRUE, emote_count |-> Cardinality(DOMAIN file)]
    /\ UNCHANGED <<token, active_connections, active_bots, bots, pc, streamer_name,
                   bot_instance, passes, sendq, wstate, sent, nmsgs, shutdown,
                   seen_bot, seventv_global_cache, global_requests, emote_cache,
                   detection, enrichment>>

\* ------------------------------------------------ emote detection, on its own
NoCall == [message_content |-> <<>>, ffz_emotes |-> NoEmotes, seventv_emotes |-> NoEmotes,
           global_seventv_emotes |-> NoEmotes, scores |-> NoEmotes, result |-> <<>>]

MaxText == 3

Texts == UNION {[1..n -> Letters \cup {" "}] : n \in 0..MaxText}

\* detect_emotes_in_message is called as event_message calls it, with mappings
\* a fetch can have stored in a bot.
Detect(message_content, ffz_emotes, seventv_emotes, global_seventv_emotes) ==
    /\ detection' = [message_content |-> message_content, ffz_emotes |-> ffz_emotes,
                     seventv_emotes |-> seventv_emotes,
                     global_seventv_emotes |-> global_seventv_emotes,
                     scores |-> emote_sentiment_scores,
                     result |-> detect_emotes_in_message(message_content, ffz_emotes,
                                    seventv_emotes, global_seventv_emotes,
                                    emote_sentiment_scores)]
    /\ UNCHANGED <<token, active_connections, active_bots, bots, pc, streamer_name,
                   bot_instance, passes, sendq, wstate, sent, nmsgs, shutdown,
                   seen_bot, seventv_global_cache, global_requests, emote_cache,
                   emote_sentiment_scores, reload_response, enrichment>>

\* --------------------------------------- nlp_processor: sentiment and keywords
\* An Optional[float]: None, or a number.
NoScore == [is_none |-> TRUE, value |-> 0]
Float(v) == [is_none |-> FALSE, value |-> v]

\* The polarity lexicon of the scorer: x is a positive word, y a negative one,
\* every other word is neutral.
Valence(word) == IF word = X THEN 1 ELSE IF word = Y THEN -1 ELSE 0

RECURSIVE SumValence(_)
SumValence(words) ==
    IF words = <<>> THEN 0 ELSE Valence(Head(words)) + SumValence(Tail(words))

\* vader_analyzer.polarity_scores(text)['compound'], normalised into [-1, 1].
polarity_scores(text) ==
    LET v == SumValence(split(text))
    IN  IF v > 1 THEN 1 ELSE IF v < -1 THEN -1 ELSE v

\* What the scoring of one message can do: work, fail inside analyze_sentiment
\* (the scorer call raises), or make analyze_sentiment itself raise.
Scorers == {"ok", "scorer_fails", "raises"}

\* Step 1 of analyze_sentiment: the words that have a score in the CSV
\* (names are lower case here, so word and word.lower() coincide).
CsvWordScores(words, scores) == [w \in Range(words) \cap DOMAIN scores |-> scores[w]]

\* Step 3: the scorer's non-neutral polarity of the words not scored yet.
VaderWordScores(words, word_scores) ==
    [w \in {v \in Range(words) : v \notin DOMAIN word_scores /\ Valence(v) # 0}
        |-> Valence(w)]

\* analyze_sentiment(text): (compound_score, word_scores); when the scorer
\* fails, at its first call, the result is (None, the CSV scores).
analyze_sentiment(text, scores, scorer) ==
    IF text = <<>> THEN [compound_score |-> Float(0), word_scores |-> NoEmotes]
    ELSE LET csv == CsvWordScores(split(text), scores)
         IN  IF scorer = "scorer_fails"
             THEN [compound_score |-> NoScore, word_scores |-> csv]
             ELSE [compound_score |-> Float(polarity_scores(text)),
                   word_scores |-> Merge(csv, VaderWordScores(split(text), csv))]

NLTK_DATA_READY == TRUE

RECURSIVE Distinct(_)
Distinct(words) ==
    IF words = <<>> THEN <<>>
    ELSE LET front == Distinct(SubSeq(words, 1, Len(words) - 1))
         IN  IF words[Len(words)] \in Range(front) THEN front
             ELSE Append(front, words[Len(words)])

\* extract_keywords(text): the most common lemmatised nouns of the text. Every
\* word of the alphabet is taken as a noun that is no stop word, and a text of
\* MaxText characters has no word twice with another in between, so the order
\* of most_common is the order of first occurrence.
extract_keywords(text) == IF NLTK_DATA_READY THEN Distinct(split(text)) ELSE <<>>

\* ---------------------------------------- twitch_irc: event_message's pipeline
\* sentiment_words.get(emote_name)
Get(sentiment_words, name) ==
    IF name \in DOMAIN sentiment_words THEN Float(sentiment_words[name]) ELSE NoScore

\* message.content[start:end+1]
Slice(content, start, end) ==
    SubSeq(content, start + 1, IF end + 1 > Len(content) THEN Len(content) ELSE end + 1)

\* One part "id:start-end" of the emotes tag, or a part that does not parse.
EmotePart(emote_id, start, end) ==
    [parses |-> TRUE, emote_id |-> emote_id, start |-> start, end |-> end]
BadPart == [parses |-> FALSE, emote_id |-> <<>>, start |-> 0, end |-> 0]

NamesOf(emotes) == {emotes[k].name : k \in 1..Len(emotes)}

\* Step 1: the platform's emotes of the tag, until a part fails to parse (the
\* except branch keeps what was appended before).
RECURSIVE TwitchEmotes(_, _, _, _)
TwitchEmotes(parts, content, sentiment_words, all_detected_emotes) ==
    IF parts = <<>> \/ ~Head(parts).parses THEN all_detected_emotes
    ELSE LET emote_name == Slice(content, Head(parts).start, Head(parts).end)
         IN  TwitchEmotes(Tail(parts), content, sentiment_words,
                 IF emote_name \in NamesOf(all_detected_emotes)
                 THEN all_detected_emotes
                 ELSE Append(all_detected_emotes,
                             [name |-> emote_name,
                              url |-> <<"twitch", Head(parts).emote_id>>,
                              type |-> "twitch",
                              sentiment_score |-> Get(sentiment_words, emote_name)]))

\* Mutant of CustomEmotes: the processed names are not consulted.
RECURSIVE CustomEmotesAll(_, _, _)
CustomEmotesAll(all_custom_emotes, sentiment_words, all_detected_emotes) ==
    IF all_custom_emotes = <<>> THEN all_detected_emotes
    ELSE CustomEmotesAll(Tail(all_custom_emotes), sentiment_words,
             Append(all_detected_emotes,
                    [name |-> Head(all_custom_emotes).name,
                     url |-> Head(all_custom_emotes).url,
                     type |-> "custom",
                     sentiment_score |-> Get(sentiment_words, Head(all_custom_emotes).name)]))

\* Step 2: the custom emotes whose name is not in processed_emote_names; the
\* detections carry no 'source' key, so their type is 'custom'.
RECURSIVE CustomEmotes(_, _, _)
CustomEmotes(all_custom_emotes, sentiment_words, all_detected_emotes) ==
    IF all_custom_emotes = <<>> THEN all_detected_emotes
    ELSE CustomEmotes(Tail(all_custom_emotes), sentiment_words,
             IF Head(all_custom_emotes).name \in NamesOf(all_detected_emotes)
             THEN all_detected_emotes
             ELSE Append(all_detected_emotes,
                         [name |-> Head(all_custom_emotes).name,
                          url |-> Head(all_custom_emotes).url,
                          type |-> "custom",
                          sentiment_score |->
                              Get(sentiment_words, Head(all_custom_emotes).name)]))

\* No broadcast: event_message returned before the pipeline.
NoPayload == [broadcast |-> FALSE, content |-> <<>>, tags |-> <<>>,
              sentiment_score |-> NoScore, sentiment_words |-> NoEmotes,
              keywords |-> <<>>, detected_emotes |-> <<>>]

\* The payload event_message hands to broadcast_to_streamer for a raw event,
\* with the three mappings of its bot and the sentiment scores of the moment.
processed_data(message, ffz_emotes, seventv_channel_emotes, seventv_global_emotes, scores, scorer) ==
    IF message.echo \/ message.content = <<>> THEN NoPayload
    ELSE LET a == IF scorer = "raises"
                  THEN [compound_score |-> Float(0), word_scores |-> NoEmotes]
                  ELSE analyze_sentiment(message.content, scores, scorer)
             all_custom_emotes ==
                 detect_emotes_in_message(message.content, ffz_emotes,
                     seventv_channel_emotes, seventv_global_emotes, scores)
         IN  [broadcast |-> TRUE,
              content |-> message.content,
              tags |-> message.tags,
              sentiment_score |-> a.compound_score,
              sentiment_words |-> a.word_scores,
              keywords |-> extract_keywords(message.content),
              detected_emotes |->
                  CustomEmotes(all_custom_emotes, a.word_scores,
                      TwitchEmotes(message.tags, message.content, a.word_scores, <<>>))]

\* Chat texts: the platform delivers them without leading or trailing blanks.
ChatTexts == {t \in Texts : t # <<>> => (t[1] # " " /\ t[Len(t)] # " ")}

\* Emotes tags: none, an emote at the first character and another at the
\* third, and a tag whose second part does not parse.
EmoteTags ==
    {<<>>,
     <<EmotePart(<<"1">>, 0, 0), EmotePart(<<"2">>, 2, 2)>>,
     <<EmotePart(<<"1">>, 0, 0), BadPart>>}

\* Raw chat events; one of them is the echo of a message the bot sent.
Messages ==
    [content : ChatTexts, tags : EmoteTags, echo : {FALSE}]
    \cup {[content |-> X, tags |-> <<>>, echo |-> TRUE]}

\* The mappings of a bot: empty until its fetch has stored them.
Snapshots ==
    {[ffz_emotes |-> NoEmotes, seventv_channel_emotes |-> NoEmotes,
      seventv_global_emotes |-> NoEmotes],
     [ffz_emotes |-> FfzRoom, seventv_channel_emotes |-> SevenTvUser,
      seventv_global_emotes |-> SevenTvGlobal]}

NoRun == [called |-> FALSE, message |-> [content |-> <<>>, tags |-> <<>>, echo |-> FALSE],
          snapshot |-> [ffz_emotes |-> NoEmotes, seventv_channel_emotes |-> NoEmotes,
                        seventv_global_emotes |-> NoEmotes],
          scores |-> NoEmotes, scorer |-> "ok", payload |-> NoPayload]

\* event_message up to its broadcast, on one raw event.
Enrich(message, snapshot, scorer) ==
    /\ enrichment' =
           [called |-> TRUE, message |-> message, snapshot |-> snapshot,
            scores |-> emote_sentiment_scores, scorer |-> scorer,
            payload |-> processed_data(message, snapshot.ffz_emotes,
                            snapshot.seventv_channel_emotes,
                            snapshot.seventv_global_emotes,
                            emote_sentiment_scores, scorer)]
    /\ UNCHANGED <<token, active_connections, active_bots, bots, pc, streamer_name,
                   bot_instance, passes, sendq, wstate, sent, nmsgs, shutdown,
                   seen_bot, seventv_global_cache, global_requests, emote_cache,
                   emote_sentiment_scores, reload_response, detection>>

\* ------------------------------------------------------------ the clients
\* The client's transport goes away: the sends awaited on it, and all later
\* ones, raise. Only a send observes the transport, so the step is taken when
\* one is awaited.
ClientDrops(w) ==
    /\ sendq[w] # <<>>
    /\ wstate[w] \in {"open", "stalled"}
    /\ wstate' = [wstate EXCEPT ![w] = "closed"]
    /\ UNCHANGED <<token, active_connections, active_bots, bots, pc, streamer_name,
                   bot_instance, passes, sendq, sent, nmsgs, shutdown, seen_bot, emote_state>>

\* The client stops reading: the sends awaited on it do not return.
ClientStalls(w) ==
    /\ sendq[w] # <<>>
    /\ wstate[w] = "open"
    /\ wstate' = [wstate EXCEPT ![w] = "stalled"]
    /\ UNCHANGED <<token, active_connections, active_bots, bots, pc, streamer_name,
                   bot_instance, passes, sendq, sent, nmsgs, shutdown, seen_bot, emote_state>>

\* --------------------------------------------------------- specification
Owners ==
    {HandlerOwner(h) : h \in WS} \cup {ReadyOwner(b) : b \in WS}
    \cup {ErrorOwner(b) : b \in WS} \cup {MessageOwner(m) : m \in MsgIds}
    \cup {FetchOwner(b) : b \in WS} \cup {RaisedOwner(m) : m \in MsgIds}

Init ==
    /\ token \in BOOLEAN
    /\ active_connections = <<>>
    /\ active_bots = <<>>
    /\ bots = <<>>
    /\ pc = [h \in WS |-> "idle"]
    /\ streamer_name = [h \in WS |-> "foo"]
    /\ bot_instance = [h \in WS |-> NotReturned]
    /\ passes = <<>>
    /\ sendq = [w \in WS |-> <<>>]
    /\ wstate = [w \in WS |-> "open"]
    /\ sent = [w \in WS |-> <<>>]
    /\ nmsgs = 0
    /\ shutdown = [pc |-> "idle", names |-> {}, awaited |-> {}, registered |-> {}]
    /\ seen_bot = [h \in WS |-> 0]
    /\ seventv_global_cache = None
    /\ global_requests = 0
    /\ emote_cache = <<>>
    /\ emote_sentiment_scores = [n \in {X} |-> 1]
    /\ reload_response = [success |-> FALSE, emote_count |-> 0]
    /\ detection = NoCall
    /\ enrichment = NoRun

\* The steps of the handlers, the connectors and the clients, chat events aside.
Core ==
    \/ \E h \in WS, c \in Channels : Connect(h, c)
    \/ \E h \in WS : AnonymousWarningReturns(h)
    \/ \E h \in WS : AlreadyRunningReturns(h)
    \/ \E h \in WS : HandlerCleanup(h)
    \/ \E b \in BotIds : CloseReturns(b)
    \/ \E b \in BotIds : EventReady(b)
    \/ \E b \in BotIds, reported \in BOOLEAN : StartFails(b, reported)
    \/ \E b \in BotIds : EventErrorSecond(b)
    \/ \E o \in DOMAIN passes : SendNext(o)
    \/ \E o \in DOMAIN passes : BroadcastReturns(o)
    \/ \E w \in WS : ClientDrops(w)

Next ==
    \/ Core
    \/ \E b \in BotIds : EventMessage(b)
    \/ \E w \in WS : ClientStalls(w)

Spec == Init /\ [][Next]_vars

\* Process shutdown while handlers and connectors are still running.
ShutdownNext ==
    \/ Core
    \/ \E h \in WS : Connect(h, OtherChannel)
    \/ \E b \in BotIds : CloseRaises(b)
    \/ ShutdownEvent
    \/ \E c \in Channels \cup {OtherChannel} : ShutdownStop(c)
    \/ ShutdownReturns

ShutdownSpec == Init /\ [][ShutdownNext]_vars

\* The steps of the emote fetch tasks.
Fetch ==
    \/ \E b \in BotIds : FetchStart(b)
    \/ \E b \in BotIds, response \in {"ok", "error"} : GlobalReturns(b, response)
    \/ \E b \in BotIds, found \in BOOLEAN : UserIdReturns(b, found)
    \/ \E b \in BotIds, ffz_response \in Responses,
          seventv_response \in Responses \cup {"not_requested"} :
              GatherReturns(b, ffz_response, seventv_response)

\* The Sessions of a channel from acquire to teardown with their emote
\* fetches, over transports that do not fail.
EmoteNext ==
    \/ \E h \in WS, c \in Channels : Connect(h, c)
    \/ \E h \in WS : AnonymousWarningReturns(h)
    \/ \E h \in WS : AlreadyRunningReturns(h)
    \/ \E h \in WS : HandlerCleanup(h)
    \/ \E b \in BotIds : CloseReturns(b)
    \/ \E b \in BotIds : EventReady(b)
    \/ \E o \in DOMAIN passes : SendNext(o)
    \/ \E o \in DOMAIN passes : BroadcastReturns(o)
    \/ Fetch

EmoteSpec == Init /\ [][EmoteNext]_vars

\* Sessions starting on two channels with their emote fetches, and reloads.
CacheNext ==
    \/ \E h \in WS, c \in Channels \cup {OtherChannel} : Connect(h, c)
    \/ \E h \in WS : AnonymousWarningReturns(h)
    \/ \E h \in WS : AlreadyRunningReturns(h)
    \/ \E b \in BotIds : EventReady(b)
    \/ \E o \in DOMAIN passes : SendNext(o)
    \/ \E o \in DOMAIN passes : BroadcastReturns(o)
    \/ Fetch
    \/ \E file \in CsvFiles : ReloadEmojiSentiments(file)

CacheSpec == Init /\ [][CacheNext]_vars

\* Calls of detect_emotes_in_message between reloads of the sentiment scores.
DetectNext ==
    \/ \E message_content \in Texts, ffz_emotes \in {NoEmotes, FfzRoom},
          seventv_emotes \in {NoEmotes, SevenTvUser},
          global_seventv_emotes \in {NoEmotes, SevenTvGlobal} :
              Detect(message_content, ffz_emotes, seventv_emotes, global_seventv_emotes)
    \/ \E file \in CsvFiles : ReloadEmojiSentiments(file)

DetectSpec == Init /\ [][DetectNext]_vars

\* Chat on one channel, some of whose raw events make event_message raise; no
\* handler leaves and no client fails.
ChatNext ==
    \/ \E h \in WS, c \in Channels : Connect(h, c)
    \/ \E h \in WS : AnonymousWarningReturns(h)
    \/ \E h \in WS : AlreadyRunningReturns(h)
    \/ \E b \in BotIds : EventReady(b)
    \/ \E b \in BotIds : EventMessage(b)
    \/ \E b \in BotIds : EventMessageRaises(b)
    \/ \E o \in DOMAIN passes : SendNext(o)
    \/ \E o \in DOMAIN passes : BroadcastReturns(o)

ChatSpec == Init /\ [][ChatNext]_vars

\* Runs of event_message's pipeline between reloads of the sentiment scores
\* from a file that has rows.
EnrichNext ==
    \/ \E message \in Messages, snapshot \in Snapshots, scorer \in Scorers :
           Enrich(message, snapshot, scorer)
    \/ \E file \in CsvFiles \ {NoEmotes} : ReloadEmojiSentiments(file)

EnrichSpec == Init /\ [][EnrichNext]_vars

\* The event loop runs every task whose awaited call has returned: the steps
\* of the program are taken when they stay possible. The handlers' clients,
\* the connector's events and the transports are under no such obligation.
Progress ==
    \/ \E h \in WS : AnonymousWarningReturns(h)
    \/ \E h \in WS : AlreadyRunningReturns(h)
    \/ \E b \in BotIds : CloseReturns(b)
    \/ \E b \in BotIds : EventErrorSecond(b)
    \/ \E o \in DOMAIN passes : SendNext(o)
    \/ \E o \in DOMAIN passes : BroadcastReturns(o)

FairSpec == Spec /\ WF_vars(Progress)

\* ================================================================ claims
BotsFor(c) == {b \in BotIds : bots[b].streamer_channel = c}

Running(b) == bots[b].state \in {"starting", "ready", "closing"}

NoStopYet == \A b \in BotIds : bots[b].state \notin {"closing", "closed"}

HandleOf(h) == bot_instance[h]

\* C1: as long as no Session of a channel has been stopped, the acquires for
\* the channel, however they interleave, have created at most one TwitchBot
\* (exactly one once an acquire has returned), and every acquire that has
\* returned was handed the same Session; whether or not an access token is set.
C1_ConcurrentAcquireCreatesOne ==
    NoStopYet =>
        \A c \in Channels :
            /\ Cardinality(BotsFor(c)) <= 1
            /\ \A h1, h2 \in WS :
                   ( /\ streamer_name[h1] = c /\ streamer_name[h2] = c
                     /\ HandleOf(h1) # NotReturned /\ HandleOf(h2) # NotReturned )
                   => HandleOf(h1) = HandleOf(h2)

\* C2: no two connectors of one channel are running (started and not yet
\* fully closed) at the same time.
C2_AtMostOneRunning ==
    \A b1, b2 \in BotIds :
        ( /\ b1 # b2
          /\ bots[b1].streamer_channel = bots[b2].streamer_channel )
        => ~(Running(b1) /\ Running(b2))

\* C3: a start_twitch_bot call that found the channel registered returns the
\* Session it found, constructs no TwitchBot and leaves active_bots as it is.
C3_AlreadyRunningReturnsExisting ==
    [][\A h \in WS :
          (pc[h] = "already" /\ pc'[h] # "already")
          => /\ bot_instance'[h] = seen_bot[h]
             /\ bots' = bots
             /\ active_bots' = active_bots]_vars

\* C4: the cleanup step of a handler that leaves the channel without
\* subscribers removes the channel from active_bots and requests the stop of
\* its connector, so get_status after that step neither lists nor counts it.
C4_LastDisconnectUnlists ==
    [][\A h \in WS :
          ( /\ pc[h] = "sleeping" /\ pc'[h] \in {"stopping", "done"}
            /\ streamer_name[h] \notin DOMAIN active_connections' )
          => /\ streamer_name[h] \notin get_status'.analyzing_streamers
             /\ get_status'.active_analysis_count
                    = Cardinality(DOMAIN active_bots \ {streamer_name[h]})
             /\ streamer_name[h] \in DOMAIN active_bots
                    => /\ bots'[active_bots[streamer_name[h]]].state = "closing"
                       /\ pc'[h] = "stopping"]_vars

\* C4 witness: a handler that was the last subscriber is awaiting the stop it
\* requested, and the channel is neither registered nor subscribed.
C4_Witness ==
    \E h \in WS :
        /\ pc[h] = "stopping"
        /\ streamer_name[h] \notin get_status.analyzing_streamers
        /\ streamer_name[h] \notin DOMAIN active_connections
        /\ \E b \in BotIds : bots[b].stopper = h /\ bots[b].state = "closing"

\* C5: an acquire for a channel that has no subscriber left never finds a
\* Session still registered for it (the Session was removed when its
\* subscriber set became empty), so it is never handed the old instance.
C5_NoReuseAfterEmpty ==
    [][\A h \in WS :
          ( /\ pc[h] = "idle" /\ pc'[h] # "idle"
            /\ streamer_name'[h] \notin DOMAIN active_connections )
          => /\ streamer_name'[h] \notin DOMAIN active_bots
             /\ seen_bot'[h] = 0]_vars

\* C6: when a broadcast pass removes the last subscriber of a channel that has
\* a registered Session, that Session is removed from active_bots and its
\* connector is stopping when the pass returns.
C6_FailedLastSubscriberTearsDown ==
    [][\A c \in Channels :
          ( /\ c \in DOMAIN active_bots
            /\ c \in DOMAIN active_connections
            /\ c \notin DOMAIN active_connections'
            /\ passes' # passes )
          => /\ c \notin DOMAIN active_bots'
             /\ bots'[active_bots[c]].state \in {"closing", "closed"}]_vars

\* A step of pass o: its current send returned or raised.
PassStepped(o) ==
    /\ o \in DOMAIN passes
    /\ o \notin DOMAIN passes' \/ passes'[o] # passes[o]

\* Pass o goes on to its next subscriber.
PassContinues(o) ==
    /\ o \in DOMAIN passes'
    /\ passes'[o].message = passes[o].message
    /\ passes'[o].snapshot = passes[o].snapshot
    /\ passes'[o].i = passes[o].i + 1

\* A pass of owner o starts in this step.
PassStarts(o) ==
    /\ o \in DOMAIN passes'
    /\ passes'[o].i = 1
    /\ o \notin DOMAIN passes \/ passes'[o] # passes[o]

Registered(conns, c) == IF c \in DOMAIN conns THEN Range(conns[c]) ELSE {}

\* C7: a broadcast pass covers the subscribers registered when it starts; each
\* of its steps sends to the current subscriber or marks it as failed, and in
\* both cases goes on to the next one without touching the registry; the pass
\* ends only after the last subscriber of its snapshot was attempted, and then
\* the failed subscribers are no longer registered while every other
\* subscriber that was registered still is.
C7_BroadcastPass ==
    [][\A o \in Owners :
          /\ PassStarts(o)
             => /\ passes'[o].snapshot = active_connections'[passes'[o].streamer_name]
                /\ passes'[o].disconnected_clients = <<>>
          /\ PassStepped(o)
             => LET p == passes[o]
                    w == p.snapshot[p.i]
                    delivered == sent'[w] = Append(sent[w], p.message)
                    raised == sent'[w] = sent[w]
                    failed == Range(p.disconnected_clients) \cup (IF raised THEN {w} ELSE {})
                IN  /\ delivered \/ raised
                    /\ \A x \in WS \ {w} : sent'[x] = sent[x]
                    /\ PassContinues(o)
                       => /\ p.i < Len(p.snapshot)
                          /\ active_connections' = active_connections
                          /\ Range(passes'[o].disconnected_clients) = failed
                    /\ ~PassContinues(o)
                       => /\ p.i = Len(p.snapshot)
                          /\ Registered(active_connections', p.streamer_name)
                                 = Registered(active_connections, p.streamer_name) \ failed]_vars

\* C7 witness: a pass has met a send error on its first subscriber, which is
\* still registered, and is awaiting the send to its second subscriber.
C7_Witness ==
    \E o \in DOMAIN passes :
        /\ passes[o].i = 2
        /\ passes[o].disconnected_clients = <<passes[o].snapshot[1]>>
        /\ passes[o].snapshot[1] \in Registered(active_connections, passes[o].streamer_name)
        /\ wstate[passes[o].snapshot[2]] = "open"

Received(w, m) ==
    \E k \in 1..Len(sent[w]) : sent[w][k].type = "chat_message" /\ sent[w][k].id = m

\* C8: a subscriber with a working transport that is covered by the broadcast
\* of a chat message is eventually sent that message (unless its own transport
\* stops working), even if a send to another subscriber never returns.
C8_StalledSendDoesNotBlock ==
    \A m \in MsgIds : \A w \in WS :
        []( ( /\ MessageOwner(m) \in DOMAIN passes
              /\ w \in Range(passes[MessageOwner(m)].snapshot)
              /\ wstate[w] = "open" )
            => <>(Received(w, m) \/ wstate[w] # "open") )

\* C9: every subscriber is sent the chat messages of a connector in the order
\* the connector delivered the raw events.
C9_ChatOrderPreserved ==
    \A w \in WS : \A i, j \in 1..Len(sent[w]) :
        ( /\ i < j
          /\ sent[w][i].type = "chat_message"
          /\ sent[w][j].type = "chat_message"
          /\ sent[w][i].bot = sent[w][j].bot )
        => sent[w][i].id < sent[w][j].id

\* C10: a Session whose connector failed to start is not registered in
\* active_bots and was not handed to any caller of start_twitch_bot (the
\* caller got the failure indicator instead).
C10_StartFailureUnregisters ==
    \A b \in BotIds :
        bots[b].state = "failed"
        => /\ \A c \in DOMAIN active_bots : active_bots[c] # b
           /\ \A h \in WS : HandleOf(h) # b

\* event_error has reported a failure of connector b to the subscribers: its
\* "Twitch IRC error" event reached a client and the callback has returned.
ErrorReported(b) ==
    /\ ErrorOwner(b) \notin DOMAIN passes
    /\ \E w \in WS : \E k \in 1..Len(sent[w]) :
           sent[w][k].payload = "irc_error" /\ sent[w][k].bot = b

\* C11: once event_error has reported an authentication failure of a
\* connector, the Session is stopped: it is no longer registered in active_bots
\* (so the next acquire creates a new Session) and its connector is stopping
\* or stopped.
C11_FatalErrorStopsSession ==
    \A b \in BotIds :
        ErrorReported(b)
        => /\ \A c \in DOMAIN active_bots : active_bots[c] # b
           /\ bots[b].state \in {"closing", "closed"}

StopRequested(b) == bots[b].state \in {"closing", "closed", "stop_error"}

StopFinished(b) == bots[b].state \in {"closed", "stop_error"}

\* A later start_twitch_bot for the same channel put its own bot in b's place.
Replaced(b) ==
    \E b2 \in BotIds : b2 > b /\ bots[b2].streamer_channel = bots[b].streamer_channel

Created(b) == b \in 1..Len(bots') /\ b > Len(bots)

\* C13: a Session created by an acquire, also one that follows the teardown of
\* an earlier Session of the channel, is a new object: its three emote mappings
\* are empty, its fetch task handle is unset and its connector is starting; the
\* registry is never given a Session that existed before, and no existing
\* Session is changed by the creation.
C13_FreshSessionAfterTeardown ==
    [][\A b \in 1..Len(bots') :
          Created(b)
          => /\ bots'[b].ffz_emotes = NoEmotes
             /\ bots'[b].seventv_channel_emotes = NoEmotes
             /\ bots'[b].seventv_global_emotes = NoEmotes
             /\ bots'[b].emote_fetch_task = "none"
             /\ bots'[b].state = "starting"
             /\ active_bots'[bots'[b].streamer_channel] = b
             /\ \A b0 \in BotIds : bots'[b0] = bots[b0]]_vars

\* C13 witness: a Session was created for a channel whose earlier Session,
\* which had fetched emotes, is closed, while the channel's emotes are cached.
C13_Witness ==
    \E b1, b2 \in BotIds :
        /\ b1 < b2
        /\ bots[b1].streamer_channel = bots[b2].streamer_channel
        /\ bots[b1].state = "closed"
        /\ bots[b1].ffz_emotes # NoEmotes
        /\ bots[b1].streamer_channel \in DOMAIN emote_cache
        /\ bots[b2].state = "starting"
        /\ bots[b2].ffz_emotes = NoEmotes

C15_GlobalFetchedOnce ==
    ~reload_response.success => global_requests <= 1

\* C16: a reload leaves the global emote cache invalidated (unset) and answers
\* with the new number of entries.
C16_ReloadInvalidatesGlobalCache ==
    [][(reload_response' # reload_response \/ emote_sentiment_scores' # emote_sentiment_scores)
       => /\ seventv_global_cache'.is_none
          /\ reload_response'.emote_count = Cardinality(DOMAIN emote_sentiment_scores')]_vars

\* The emote fetch of Session b has stored its results in the bot.
Fetched(b) == bots[b].emote_fetch_task \in {"broadcast", "done"}

\* The events of a type that Session b has sent, as <<subscriber, position>>.
EventsFrom(b, type) ==
    UNION {{<<w, k>> : k \in {j \in 1..Len(sent[w]) :
                                  sent[w][j].bot = b /\ sent[w][j].type = type}} : w \in WS}

\* C17: after a fetch, each channel mapping of the Session holds the entries
\* of its source when that source answered and is empty when it failed or
\* answered not-found, whatever the other source did; the Session has sent no
\* error event and no warning event, and what the fetch broadcasts is a status.
C17_PartialEmoteResults ==
    \A b \in BotIds :
        Fetched(b)
        => /\ bots[b].ffz_emotes
                  = IF bots[b].ffz_response = "ok" THEN FfzRoom ELSE NoEmotes
           /\ bots[b].seventv_channel_emotes
                  = IF bots[b].seventv_response = "ok" THEN SevenTvUser ELSE NoEmotes
           /\ EventsFrom(b, "error") = {}
           /\ Cardinality(EventsFrom(b, "warning")) <= 1
           /\ FetchOwner(b) \in DOMAIN passes
                  => passes[FetchOwner(b)].message.type = "status"

\* C17 witness: source A answered not-found, source B answered with its two
\* entries, and the Session, still registered and ready, has told a subscriber
\* that the emotes are loaded.
C17_Witness ==
    \E b \in BotIds :
        /\ bots[b].emote_fetch_task = "done"
        /\ bots[b].ffz_response = "not_found"
        /\ bots[b].seventv_response = "ok"
        /\ bots[b].ffz_emotes = NoEmotes
        /\ Cardinality(DOMAIN bots[b].seventv_channel_emotes) = 2
        /\ bots[b].state = "ready"
        /\ \E c \in DOMAIN active_bots : active_bots[c] = b
        /\ EventsFrom(b, "status") # {}

\* C18: when the identity lookup returned None, both channel mappings the
\* fetch stores are empty and the global mapping is the cached one.
C18_NoIdentityNoChannelEmotes ==
    \A b \in BotIds :
        (Fetched(b) /\ bots[b].twitch_user_id = "none")
        => /\ bots[b].ffz_emotes = NoEmotes
           /\ bots[b].seventv_channel_emotes = NoEmotes
           /\ bots[b].seventv_global_emotes = seventv_global_cache.value

Degraded(b) ==
    \/ bots[b].ffz_response = "error"
    \/ bots[b].seventv_response = "error"
    \/ bots[b].twitch_user_id = "none"

\* C19: when a source was unreachable or the identity lookup failed, every
\* subscriber the fetch has reported to was sent a warning event of the
\* Session, and the affected mapping is empty.
C19_DegradedFetchWarns ==
    \A b \in BotIds :
        (bots[b].emote_fetch_task = "done" /\ Degraded(b))
        => /\ bots[b].ffz_response = "error" => bots[b].ffz_emotes = NoEmotes
           /\ bots[b].seventv_response # "ok" => bots[b].seventv_channel_emotes = NoEmotes
           /\ \A w \in WS :
                  (\E e \in EventsFrom(b, "status") :
                       e[1] = w /\ sent[w][e[2]].payload = "emotes_loaded")
                  => \E e \in EventsFrom(b, "warning") : e[1] = w

\* C20: a detected name that both channel mappings hold is reported with the
\* URL of the first one, the FFZ mapping.
C20_ChannelSourceAPrecedence ==
    \A k \in 1..Len(detection.result) :
        detection.result[k].name
            \in (DOMAIN detection.ffz_emotes) \cap (DOMAIN detection.seventv_emotes)
        => detection.result[k].url = detection.ffz_emotes[detection.result[k].name]

\* The names of the two channel mappings of a detection call.
ChannelNames == (DOMAIN detection.ffz_emotes) \cup (DOMAIN detection.seventv_emotes)

ChannelUrls(n) ==
    {detection.ffz_emotes[m] : m \in (DOMAIN detection.ffz_emotes) \cap {n}}
    \cup {detection.seventv_emotes[m] : m \in (DOMAIN detection.seventv_emotes) \cap {n}}

DetectedNames == {detection.result[k].name : k \in 1..Len(detection.result)}

C22_EveryMatchReported ==
    \A n \in Range(split(detection.message_content)) :
        n \in ChannelNames \cup DOMAIN detection.global_seventv_emotes
        => n \in DetectedNames

\* The entries of the detected_emotes list of the last run.
Entries == enrichment.payload.detected_emotes

\* The names the emotes tag of the last run reports, and those the custom
\* detection reports.
NativeNames ==
    NamesOf(TwitchEmotes(enrichment.message.tags, enrichment.message.content, NoEmotes, <<>>))

CustomNames ==
    NamesOf(detect_emotes_in_message(enrichment.message.content,
                enrichment.snapshot.ffz_emotes, enrichment.snapshot.seventv_channel_emotes,
                enrichment.snapshot.seventv_global_emotes, enrichment.scores))

C25_FailedScoringIsNeutral ==
    (enrichment.payload.broadcast /\ enrichment.scorer # "ok")
    => enrichment.payload.sentiment_score = Float(0)

\* C26: a run on the raw event and the three mappings of the run before it
\* (and the same behaviour of the scorer) produces the payload of that run.
C26_EnrichmentDeterministic ==
    [][(/\ enrichment.called
        /\ enrichment'.message = enrichment.message
        /\ enrichment'.snapshot = enrichment.snapshot
        /\ enrichment'.scorer = enrichment.scorer)
       => enrichment'.payload = enrichment.payload]_vars

\* C24: every event a subscriber was sent for a raw chat event is that event's
\* chat_message: a raw event whose enrichment raised sent nothing, no error
\* event either.
C24_RaisedMessageIsSilent ==
    \A w \in WS : \A k \in 1..Len(sent[w]) :
        sent[w][k].id \in MsgIds => sent[w][k].type = "chat_message"

Joined(w) ==
    \E k \in 1..Len(sent[w]) : sent[w][k].type = "status" /\ sent[w][k].payload = "joined"

\* C27: once the handlers that all entered start_twitch_bot while the channel
\* had no Session have returned from it, the connectors are ready and every
\* broadcast has ended, one Session exists and every subscriber was sent the
\* status event of the join.
C27_ConcurrentJoinersShareOneSession ==
    ( /\ \A h \in WS : pc[h] = "sleeping" /\ seen_bot[h] = 0 /\ wstate[h] = "open"
      /\ passes = <<>>
      /\ \A b \in BotIds : bots[b].state = "ready" )
    => /\ Len(bots) = 1
       /\ \A w \in WS : Joined(w)

\* C30: with an access token, an acquire that finds its channel absent from
\* active_bots registers a new TwitchBot in the same step and never waits on
\* the anonymous warning, an acquire that finds it present creates nothing
\* and takes the already-running branch, and as long as no Session was
\* stopped each channel has had at most one TwitchBot.
C30_TokenAcquireIsAtomic ==
    [][token =>
        /\ NoStopYet' => \A c \in Channels : Cardinality(BotsFor(c)') <= 1
        /\ \A h \in WS :
               (pc[h] = "idle" /\ pc'[h] # "idle")
               => IF streamer_name'[h] \in DOMAIN active_bots
                  THEN /\ pc'[h] = "already"
                       /\ bots' = bots
                       /\ active_bots' = active_bots
                  ELSE /\ pc'[h] = "sleeping"
                       /\ Len(bots') = Len(bots) + 1
                       /\ streamer_name'[h] \in DOMAIN active_bots'
                       /\ active_bots'[streamer_name'[h]] = Len(bots')
                       /\ bot_instance'[h] = Len(bots')]_vars

\* C30 witness: with an access token, two acquires of one channel have returned
\* and hold the one TwitchBot that was created.
C30_Witness ==
    /\ token
    /\ Len(bots) = 1
    /\ \A h \in WS : pc[h] = "sleeping" /\ bot_instance[h] = 1

\* The order of a Session's states: Starting, Active (or failed to start),
\* Stopping, Stopped.
Rank(state) ==
    IF state = "starting" THEN 1
    ELSE IF state \in {"ready", "failed"} THEN 2
    ELSE IF state = "closing" THEN 3
    ELSE 4

\* Broadcasts of b's ready event or of a chat message of b that start in a step.
BecomesActive(b) ==
    \E o \in (DOMAIN passes') \ (DOMAIN passes) :
        /\ o[1] \in {"event_ready", "event_message", "fetch_emotes"}
        /\ passes'[o].message.bot = b

ActsOn(c) ==
    \/ \E h \in WS : pc'[h] # pc[h] /\ streamer_name'[h] = c
    \/ \E b \in BotIds : bots'[b] # bots[b] /\ bots[b].streamer_channel = c
    \/ \E o \in DOMAIN passes :
           /\ passes[o].streamer_name = c
           /\ (o \in DOMAIN passes' => passes'[o] # passes[o])
    \/ \E o \in (DOMAIN passes') \ (DOMAIN passes) : passes'[o].streamer_name = c
    \/ \E w \in WS : wstate'[w] # wstate[w] /\ streamer_name[w] = c
    \/ c \in shutdown.names \ shutdown'.names

\* A step changes channel d: its subscriber list, its registration in
\* active_bots, or what one of its subscribers was sent.
Touches(d) ==
    \/ (d \in DOMAIN active_connections) # (d \in DOMAIN active_connections')
    \/ d \in DOMAIN active_connections /\ d \in DOMAIN active_connections'
          /\ active_connections'[d] # active_connections[d]
    \/ (d \in DOMAIN active_bots) # (d \in DOMAIN active_bots')
    \/ d \in DOMAIN active_bots /\ d \in DOMAIN active_bots'
          /\ active_bots'[d] # active_bots[d]
    \/ \E w \in Registered(active_connections, d) : sent'[w] # sent[w]

\* C29: a step is an operation on at most one channel, and it leaves every
\* other channel's subscriber list and registration as they were and sends
\* nothing to another channel's subscribers.
C29_ChannelsAreIsolated ==
    [][\A c, d \in Channels \cup {OtherChannel} :
          c # d => /\ ~(ActsOn(c) /\ ActsOn(d))
                   /\ ActsOn(c) => ~Touches(d)]_vars

\* C29 witness: two channels have a subscriber and a registered bot each, and
\* each subscriber was sent the join status of its own channel's bot only.
C29_Witness ==
    \E w1, w2 \in WS :
        /\ w1 \in Registered(active_connections, "foo")
        /\ w2 \in Registered(active_connections, OtherChannel)
        /\ "foo" \in DOMAIN active_bots /\ OtherChannel \in DOMAIN active_bots
        /\ Joined(w1) /\ Joined(w2)
        /\ \A k \in 1..Len(sent[w1]) : sent[w1][k].bot \in {0, active_bots["foo"]}
        /\ \A k \in 1..Len(sent[w2]) : sent[w2][k].bot \in {0, active_bots[OtherChannel]}

\* stop_bot has been invoked on bot b.
StopInvoked(b) == bots[b].state \in {"closing", "closed", "stop_error"}

IsRegistered(b) ==
    /\ bots[b].streamer_channel \in DOMAIN active_bots
    /\ active_bots[bots[b].streamer_channel] = b

\* C31: every TwitchBot ever created is the one registered in active_bots for
\* its channel or has had stop_bot invoked on it.
C31_NoConnectorLeaked ==
    \A b \in BotIds : IsRegistered(b) \/ StopInvoked(b)

\* C33: no channel key of active_connections maps to an empty list, before and
\* after every step, and the cleanup of a handler whose websocket is not
\* registered for its channel leaves the registry unchanged.
C33_NoEmptySubscriberList ==
    [][/\ \A c \in DOMAIN active_connections : active_connections[c] # <<>>
       /\ \A c \in DOMAIN active_connections' : active_connections'[c] # <<>>
       /\ \A h \in WS :
              ( /\ pc[h] = "sleeping" /\ pc'[h] \in {"stopping", "done"}
                /\ h \notin Registered(active_connections, streamer_name[h]) )
              => active_connections' = active_connections]_vars

\* C33 witness: the subscribers of a channel are gone and so is its key: one
\* handler has run its cleanup, the other, still in its sleep loop, was
\* disconnected by a broadcast after a failed send.
C33_Witness ==
    /\ active_connections = <<>>
    /\ \E h1, h2 \in WS :
           /\ pc[h1] = "done"
           /\ pc[h2] = "sleeping" /\ wstate[h2] = "closed"

\* C32: stop_bot is invoked on a Session at most once: it is invoked on a bot
\* that was registered and on which it had not been invoked, the bot is
\* unregistered by the same step, and a stop request of the shutdown for a
\* channel that has no registered Session changes no Session and no registry.
C32_StopInvokedOnce ==
    [][/\ \A b \in BotIds :
             /\ StopInvoked(b) => bots'[b].stopper = bots[b].stopper
             /\ (bots'[b].stopper # bots[b].stopper \/ (~StopInvoked(b) /\ StopInvoked(b)'))
                => /\ IsRegistered(b)
                   /\ ~IsRegistered(b)'
                   /\ bots'[b].state = "closing"
             /\ StopInvoked(b) => ~IsRegistered(b)
       /\ \A c \in shutdown.names \ shutdown'.names :
             c \notin DOMAIN active_bots
             => /\ bots' = bots
                /\ active_bots' = active_bots
                /\ active_connections' = active_connections]_vars

\* C32 witness: the shutdown has gone through its stop requests while a Session
\* that a handler's cleanup had stopped was still closing; the stopper of that
\* Session is the handler.
C32_Witness ==
    /\ shutdown.pc = "gather"
    /\ shutdown.names = {}
    /\ shutdown.registered # {}
    /\ \E b \in shutdown.registered :
           bots[b].state = "closing" /\ bots[b].stopper \in WS

\* A failed global fetch has stored its empty mapping in the cache.
FailureCached == ~seventv_global_cache.is_none /\ seventv_global_cache.value = NoEmotes

\* C34: once a failed global fetch has stored an empty mapping, the cache keeps
\* it, no further request goes to the global source, and every emote fetch
\* that completes hands its Session an empty global mapping.
C34_FailedGlobalFetchIsCached ==
    [][FailureCached
       => /\ seventv_global_cache' = seventv_global_cache
          /\ global_requests' = global_requests
          /\ \A b \in BotIds :
                 (bots[b].emote_fetch_task = "gather" /\ bots'[b].emote_fetch_task # "gather")
                 => bots'[b].seventv_global_emotes = NoEmotes]_vars

\* The part of C34 about requests alone: with a cached failure no request is
\* issued.
NoRequestAfterCachedFailure ==
    [][FailureCached => global_requests' = global_requests]_vars

====
